---- MODULE Spec2Model ----
(***************************************************************************)
(* Model of clean_data.py: the file resolver (find_file), the numeric      *)
(* cleaning rule (clean_numeric), the race normalizer (process_race_data), *)
(* the center normalizer (process_center_data) and the batch run (main).   *)
(*                                                                         *)
(* Text is a sequence of one-character strings, so that replace, strip,    *)
(* lower, isdigit, slice and the numeric parses are computed character by  *)
(* character.  A cell of a pandas frame is a tagged record: a missing      *)
(* value (NaN), a text, a number or a boolean.                             *)
(***************************************************************************)
EXTENDS Integers, Sequences, FiniteSets, TLC

VARIABLES
    pc,            \* position of the run or of the function application
    listing,       \* BASE_DIR: the .csv files in directory-listing order
    race_file,     \* main: result of find_file("Kidney")
    center_file,   \* main: result of find_file("Transplants")
    map_file,      \* main: result of find_file("center_mapping")
    out_race,      \* processed_data/clean_race_data.csv
    out_center,    \* processed_data/clean_center_data.csv
    x,             \* argument of clean_numeric
    cleaned,       \* clean_numeric(x)
    recleaned,     \* clean_numeric(clean_numeric(x))
    raceIn,        \* argument of process_race_data (the file's fields)
    raceOut,       \* its result
    centerIn,      \* argument file_path of process_center_data (its fields)
    mapIn,         \* argument map_file of process_center_data
    centerOut,     \* its result
    centerBare,    \* its result for the same report and map_file = None
    rerun          \* main has been started again after a completed run

runVars ==
    <<listing, race_file, center_file, map_file, out_race, out_center, rerun>>
numVars == <<x, cleaned, recleaned>>
raceVars == <<raceIn, raceOut>>
centerVars == <<centerIn, mapIn, centerOut, centerBare>>

vars == <<pc, runVars, numVars, raceVars, centerVars>>

----------------------------------------------------------------------------
(* Bounds of the model.                                                    *)

\* longest text handed to clean_numeric, besides the documented examples
MaxLen == 3
\* most data rows of a raw race or center report
MaxRows == 2
\* most columns of a race report after its two leading columns
MaxCols == 2
\* most rows of a mapping table
MaxMapRows == 2
\* most .csv files in BASE_DIR
MaxFiles == 3

----------------------------------------------------------------------------
(* Cells.                                                                  *)

\* NaN / None: a missing value
Null == [t |-> "null", s |-> <<>>, n |-> 0]
Str(txt) == [t |-> "str", s |-> txt, n |-> 0]
Num(k) == [t |-> "num", s |-> <<>>, n |-> k]
Bool(b) == [t |-> "bool", s |-> <<>>, n |-> IF b THEN 1 ELSE 0]
\* the value of an expression that raised an exception
Raised == [t |-> "raise", s |-> <<>>, n |-> 0]

----------------------------------------------------------------------------
(* str methods.                                                            *)

WhiteSpace == {" ", "\t", "\n", "\r"}
DigitChars == <<"0", "1", "2", "3", "4", "5", "6", "7", "8", "9">>
UpperChars == <<"A", "B", "C", "D", "E", "F", "G", "H", "I", "J", "K", "L", "M",
                "N", "O", "P", "Q", "R", "S", "T", "U", "V", "W", "X", "Y", "Z">>
LowerChars == <<"a", "b", "c", "d", "e", "f", "g", "h", "i", "j", "k", "l", "m",
                "n", "o", "p", "q", "r", "s", "t", "u", "v", "w", "x", "y", "z">>

IsDigitChar(c) == \E i \in 1..10 : DigitChars[i] = c
DigitVal(c) == (CHOOSE i \in 1..10 : DigitChars[i] = c) - 1

\* str.replace(old, '') for a one-character old
replace(txt, old) == SelectSeq(txt, LAMBDA c : c # old)

RECURSIVE lstrip(_)
lstrip(txt) ==
    IF txt # <<>> /\ Head(txt) \in WhiteSpace THEN lstrip(Tail(txt)) ELSE txt

RECURSIVE rstrip(_)
rstrip(txt) ==
    IF txt # <<>> /\ txt[Len(txt)] \in WhiteSpace
    THEN rstrip(SubSeq(txt, 1, Len(txt) - 1))
    ELSE txt

\* str.strip()
strip(txt) == rstrip(lstrip(txt))

LowerChar(c) ==
    IF \E i \in 1..26 : UpperChars[i] = c
    THEN LowerChars[CHOOSE i \in 1..26 : UpperChars[i] = c]
    ELSE c

\* str.lower()
lower(txt) == [i \in 1..Len(txt) |-> LowerChar(txt[i])]

\* str.isdigit(): non-empty and every character a decimal digit
isdigit(txt) == txt # <<>> /\ \A i \in 1..Len(txt) : IsDigitChar(txt[i])

\* str.slice(start, stop) with start = 0
slice(txt, stop) == SubSeq(txt, 1, IF Len(txt) < stop THEN Len(txt) ELSE stop)

RECURSIVE ParseNat(_)
ParseNat(txt) ==
    IF txt = <<>> THEN 0
    ELSE 10 * ParseNat(SubSeq(txt, 1, Len(txt) - 1)) + DigitVal(txt[Len(txt)])

\* an optionally signed run of decimal digits
IsIntText(txt) ==
    \/ isdigit(txt)
    \/ Len(txt) > 1 /\ txt[1] \in {"-", "+"} /\ isdigit(Tail(txt))

IntOf(txt) ==
    IF txt[1] = "-" THEN 0 - ParseNat(Tail(txt))
    ELSE IF txt[1] = "+" THEN ParseNat(Tail(txt))
    ELSE ParseNat(txt)

T_nan == <<"n", "a", "n">>

\* float(clean_str), over texts of digits, signs, letters, blanks: a signed
\* nan is the float NaN, any other non-number raises ValueError
float(txt) ==
    IF IsIntText(txt) THEN Num(IntOf(txt))
    ELSE IF lower(txt) \in {T_nan, <<"-">> \o T_nan, <<"+">> \o T_nan} THEN Null
    ELSE Raised

----------------------------------------------------------------------------
(* clean_numeric                                                           *)

\* a slip: quote characters are not removed
clean_numeric_keepquotes(v) ==
    IF v.t = "str"
    THEN LET clean_str == strip(replace(v.s, ","))
         IN  IF clean_str = <<>> \/ lower(clean_str) = T_nan THEN Num(0)
             ELSE float(clean_str)
    ELSE v

clean_numeric(v) ==
    IF v.t = "str"
    THEN LET clean_str == strip(replace(replace(v.s, ","), "\""))
         IN  IF clean_str = <<>> \/ lower(clean_str) = T_nan THEN Num(0)
             ELSE float(clean_str)
    ELSE v

----------------------------------------------------------------------------
(* Application of clean_numeric to one cell value.                         *)

Idle == "idle"

Alphabet == {"1", "4", ",", "\"", " ", "n", "a", "N", "-"}

RECURSIVE TextsUpTo(_)
TextsUpTo(k) ==
    IF k = 0 THEN {<<>>}
    ELSE LET shorter == TextsUpTo(k - 1)
         IN  shorter \cup {Append(txt, c) : txt \in shorter, c \in Alphabet}

T_1200 == <<"1", ",", "2", "0", "0">>
T_q3400 == <<"\"", "3", ",", "4", "0", "0", "\"">>
T_NaN == <<"N", "a", "N">>

\* the values a cell can hold when clean_numeric is applied to it
NumericInputs ==
    {Str(txt) : txt \in TextsUpTo(MaxLen) \cup {T_1200, T_q3400}}
        \cup {Num(k) : k \in {0 - 5, 0, 42}} \cup {Null, Bool(TRUE)}

InitNumeric ==
    /\ pc = "num_input"
    /\ x \in NumericInputs
    /\ cleaned = Idle /\ recleaned = Idle
    /\ listing = Idle /\ race_file = Idle /\ center_file = Idle /\ map_file = Idle
    /\ rerun = Idle
    /\ out_race = Idle /\ out_center = Idle
    /\ raceIn = Idle /\ raceOut = Idle
    /\ centerIn = Idle /\ mapIn = Idle /\ centerOut = Idle /\ centerBare = Idle

ApplyClean ==
    /\ pc = "num_input"
    /\ cleaned' = clean_numeric(x)
    /\ pc' = "num_cleaned"
    /\ UNCHANGED <<runVars, raceVars, centerVars, x, recleaned>>

\* the rule applied to its own result, when the first application returned
ReapplyClean ==
    /\ pc = "num_cleaned"
    /\ cleaned # Raised
    /\ recleaned' = clean_numeric(cleaned)
    /\ pc' = "num_recleaned"
    /\ UNCHANGED <<runVars, raceVars, centerVars, x, cleaned>>

NextNumeric == ApplyClean \/ ReapplyClean

SpecNumeric == InitNumeric /\ [][NextNumeric]_vars

----------------------------------------------------------------------------
(* C7                                                                      *)

\* what is left of a text once commas and double quotes are taken out and the
\* surrounding whitespace is cut off
Remainder(txt) ==
    LET kept == SelectSeq(txt, LAMBDA c : c \notin {",", "\""})
        solid == {i \in 1..Len(kept) : kept[i] \notin WhiteSpace}
    IN  IF solid = {} THEN <<>>
        ELSE SubSeq(kept, CHOOSE i \in solid : \A j \in solid : i <= j,
                          CHOOSE i \in solid : \A j \in solid : j <= i)

RECURSIVE Pow10(_)
Pow10(k) == IF k = 0 THEN 1 ELSE 10 * Pow10(k - 1)

RECURSIVE DigitSum(_, _)
\* the natural number a run of digits denotes: sum of digit * 10^place
DigitSum(txt, i) ==
    IF i > Len(txt) THEN 0
    ELSE DigitVal(txt[i]) * Pow10(Len(txt) - i) + DigitSum(txt, i + 1)

IsDecimal(txt) ==
    LET body == IF txt # <<>> /\ txt[1] = "-" THEN Tail(txt) ELSE txt
    IN  body # <<>> /\ \A i \in 1..Len(body) : IsDigitChar(body[i])

Denoted(txt) ==
    IF txt[1] = "-" THEN 0 - DigitSum(Tail(txt), 1) ELSE DigitSum(txt, 1)

\* C7: clean_numeric follows the numeric-cleaning rule on every cell value:
\* a text whose remainder (commas and double quotes removed, trimmed) is empty
\* or reads "nan" in any case gives 0, a text whose remainder is a decimal
\* number gives that number ("1,200" gives 1200, '"3,400"' gives 3400, "" and
\* "NaN" give 0), a non-text value is returned unchanged (42 gives 42), and
\* applying the rule to its own result changes nothing.
C7_CleanNumericRule ==
    /\ pc \in {"num_cleaned", "num_recleaned"} =>
        /\ x.t # "str" => cleaned = x
        /\ x.t = "str" =>
            LET r == Remainder(x.s)
            IN  /\ (r = <<>> \/ lower(r) = T_nan) => cleaned = Num(0)
                /\ IsDecimal(r) => cleaned = Num(Denoted(r))
        /\ x = Str(T_1200) => cleaned = Num(1200)
        /\ x = Str(T_q3400) => cleaned = Num(3400)
        /\ x = Str(<<>>) => cleaned = Num(0)
        /\ x = Str(T_NaN) => cleaned = Num(0)
        /\ x = Num(42) => cleaned = Num(42)
    /\ pc = "num_recleaned" => recleaned = cleaned

\* the quoted, comma-grouped example has been cleaned, and cleaned again
C7_Witness ==
    /\ pc = "num_recleaned"
    /\ x = Str(T_q3400)
    /\ cleaned = Num(3400)
    /\ recleaned = Num(3400)

----------------------------------------------------------------------------
(* pd.read_csv: from the fields of a delimited file to the cells of a frame *)

T_NA == <<"N", "A">>
T_NSlashA == <<"N", "/", "A">>
T_nSlasha == <<"n", "/", "a">>
T_NULL == <<"N", "U", "L", "L">>
T_null == <<"n", "u", "l", "l">>
T_HashNA == <<"#", "N", "/", "A">>
T_True == <<"T", "r", "u", "e">>
T_False == <<"F", "a", "l", "s", "e">>

\* fields read as a missing value (among pandas' default na_values)
NaValues ==
    {<<>>, T_nan, T_NaN, <<"-">> \o T_nan, <<"-">> \o T_NaN,
     T_NA, T_NSlashA, T_nSlasha, T_NULL, T_null, T_HashNA}

TrueValues == {T_True, lower(T_True)}
FalseValues == {T_False, lower(T_False)}

\* The cells of one column.  A column whose fields, the missing ones aside,
\* are all numbers is numeric and one whose fields are all booleans is
\* boolean; in any other column each field stays the text it is.
ParseColumn(fields) ==
    LET present == {i \in 1..Len(fields) : fields[i] \notin NaValues}
    IN  IF \A i \in present : IsIntText(strip(fields[i]))
        THEN [i \in 1..Len(fields) |->
                 IF i \in present THEN Num(IntOf(strip(fields[i]))) ELSE Null]
        ELSE IF \A i \in present : fields[i] \in TrueValues \cup FalseValues
        THEN [i \in 1..Len(fields) |->
                 IF i \in present THEN Bool(fields[i] \in TrueValues) ELSE Null]
        ELSE [i \in 1..Len(fields) |->
                 IF i \in present THEN Str(fields[i]) ELSE Null]

\* dtype of a parsed column: "object" holds text, the str accessor needs it
\* (a column of a frame without rows is of dtype object)
IsObjectColumn(cells) ==
    Len(cells) = 0 \/ \E i \in 1..Len(cells) : cells[i].t = "str"

\* the fields of column j of the rows
ColumnOf(rows, j) == [i \in 1..Len(rows) |-> rows[i][j]]

\* the rows of a file as cells, every column parsed on its own
ParseRows(rows, width) ==
    LET cols == [j \in 1..width |-> ParseColumn(ColumnOf(rows, j))]
    IN  [i \in 1..Len(rows) |-> [j \in 1..width |-> cols[j][i]]]

\* a repeated header label gets the suffix .1, .2, ...
MangleDupes(header) ==
    [j \in 1..Len(header) |->
        LET before == Cardinality({k \in 1..(j - 1) : header[k] = header[j]})
        IN  IF before = 0 THEN header[j]
            ELSE header[j] \o <<".", DigitChars[before + 1]>>]

----------------------------------------------------------------------------
(* process_race_data                                                       *)

T_Donor_Type == <<"D", "o", "n", "o", "r", "_", "T", "y", "p", "e">>
T_Race_Ethnicity ==
    <<"R", "a", "c", "e", "_", "E", "t", "h", "n", "i", "c", "i", "t", "y">>
T_ToDate == <<"T", "o", " ", "D", "a", "t", "e">>
T_AllRaces ==
    <<"A", "l", "l", " ", "R", "a", "c", "e", "s", "/", "E", "t", "h", "n",
      "i", "c", "i", "t", "i", "e", "s">>
T_WhiteNH ==
    <<"W", "h", "i", "t", "e", ",", " ", "N", "o", "n", "-", "H", "i", "s",
      "p", "a", "n", "i", "c">>
T_White == <<"W", "h", "i", "t", "e">>
T_BlackNH ==
    <<"B", "l", "a", "c", "k", ",", " ", "N", "o", "n", "-", "H", "i", "s",
      "p", "a", "n", "i", "c">>
T_Black == <<"B", "l", "a", "c", "k">>
T_AsianNH ==
    <<"A", "s", "i", "a", "n", ",", " ", "N", "o", "n", "-", "H", "i", "s",
      "p", "a", "n", "i", "c">>
T_Asian == <<"A", "s", "i", "a", "n">>
T_HispanicLatino ==
    <<"H", "i", "s", "p", "a", "n", "i", "c", "/", "L", "a", "t", "i", "n",
      "o">>
T_Hispanic == <<"H", "i", "s", "p", "a", "n", "i", "c">>

\* a function that raised instead of returning a frame
RaisedFrame == [ok |-> FALSE, cols |-> <<>>, rows |-> <<>>]

\* pd.read_csv(file_path, header=1): the labels of the header line and the
\* parsed data rows
ReadRaceCsv(file) ==
    [columns |-> MangleDupes(file.header),
     data |-> ParseRows(file.rows, Len(file.header))]

\* df.rename(columns={df.columns[0]: 'Donor_Type', df.columns[1]: 'Race_Ethnicity'})
RenameKeyColumns(columns) ==
    [j \in 1..Len(columns) |->
        IF columns[j] = columns[1] THEN T_Donor_Type
        ELSE IF columns[j] = columns[2] THEN T_Race_Ethnicity
        ELSE columns[j]]

\* the positions of the columns left once 'To Date' is dropped
KeptColumns(columns) ==
    SelectSeq([j \in 1..Len(columns) |-> j], LAMBDA j : columns[j] # T_ToDate)

\* a slip: the label is tested as it stands, untrimmed
ValueVarsUntrimmed(columns) ==
    SelectSeq(KeptColumns(columns), LAMBDA j : isdigit(columns[j]))

\* value_vars: the positions of the columns whose label is digits once trimmed
ValueVars(columns) ==
    SelectSeq(KeptColumns(columns), LAMBDA j : isdigit(strip(columns[j])))

\* a slip: the cell is taken from the observation's place among the value
\* columns, not from the value column itself
MeltByPlace(columns, data, value_vars) ==
    LET R == Len(data)
    IN  [k \in 1..(R * Len(value_vars)) |->
            LET b == ((k - 1) \div R) + 1
                i == ((k - 1) % R) + 1
            IN  [Donor_Type |-> data[i][1],
                 Race_Ethnicity |-> data[i][2],
                 Year |-> Str(columns[value_vars[b]]),
                 Count |-> data[i][2 + b]]]

\* df.melt: for each value column in turn, one observation per row
Melt(columns, data, value_vars) ==
    LET R == Len(data)
    IN  [k \in 1..(R * Len(value_vars)) |->
            LET j == value_vars[((k - 1) \div R) + 1]
                i == ((k - 1) % R) + 1
            IN  [Donor_Type |-> data[i][1],
                 Race_Ethnicity |-> data[i][2],
                 Year |-> Str(columns[j]),
                 Count |-> data[i][j]]]

\* pd.to_numeric of a label: the number it reads, blanks around it ignored
to_numeric(v) ==
    IF v.t # "str" THEN v
    ELSE IF IsIntText(strip(v.s)) THEN Num(IntOf(strip(v.s)))
    ELSE Raised

\* Series.replace with the synonym map
SimplifyRace(v) ==
    IF v = Str(T_WhiteNH) THEN Str(T_White)
    ELSE IF v = Str(T_BlackNH) THEN Str(T_Black)
    ELSE IF v = Str(T_AsianNH) THEN Str(T_Asian)
    ELSE IF v = Str(T_HispanicLatino) THEN Str(T_Hispanic)
    ELSE v

RaceColumns == <<"Donor_Type", "Race_Ethnicity", "Year", "Count">>

process_race_data(file) ==
    LET df == ReadRaceCsv(file)
    IN  IF Len(df.columns) < 2 THEN RaisedFrame
        ELSE
        LET columns == RenameKeyColumns(df.columns)
            df_long == Melt(columns, df.data, ValueVars(columns))
            numeric == [k \in 1..Len(df_long) |->
                           [df_long[k] EXCEPT !.Count = clean_numeric(@),
                                              !.Year = to_numeric(@)]]
            df_clean == SelectSeq(numeric,
                           LAMBDA o : o.Race_Ethnicity # Str(T_AllRaces))
        IN  IF \E k \in 1..Len(numeric) :
                   numeric[k].Count = Raised \/ numeric[k].Year = Raised
            THEN RaisedFrame
            ELSE [ok |-> TRUE,
                  cols |-> RaceColumns,
                  rows |-> [k \in 1..Len(df_clean) |->
                               [df_clean[k] EXCEPT
                                   !.Race_Ethnicity = SimplifyRace(@)]]]

----------------------------------------------------------------------------
(* process_center_data                                                     *)

T_AllCenters == <<"A", "l", "l", " ", "C", "e", "n", "t", "e", "r", "s">>
T_AllPayers ==
    <<"A", "l", "l", " ", "P", "r", "i", "m", "a", "r", "y", " ", "P", "a",
      "y", "e", "r", "s">>
T_Center_Code == <<"C", "e", "n", "t", "e", "r", "_", "C", "o", "d", "e">>
T_Region == <<"R", "e", "g", "i", "o", "n">>
T_Urban == <<"U", "r", "b", "a", "n">>

\* None: no file
None == [exists |-> FALSE, header |-> <<>>, rows |-> <<>>]

\* str.slice(0, 8)
CodeLen == 8

\* cols, the names given to the 7 positional fields
CenterCols ==
    <<"Center_Long", "Citizenship", "Payment_Category", "Blank",
      "Total", "Deceased", "Living">>

\* pd.read_csv(file_path, skiprows=2, names=cols, header=None): the rows after
\* the two skipped lines, every column parsed on its own
ReadCenterCsv(file) ==
    LET data == ParseRows(file.rows, Len(CenterCols))
    IN  [i \in 1..Len(data) |->
            [Center_Long |-> data[i][1], Citizenship |-> data[i][2],
             Payment_Category |-> data[i][3], Blank |-> data[i][4],
             Total |-> data[i][5], Deceased |-> data[i][6], Living |-> data[i][7]]]

\* a slip: the column is left as read
ffill_skipped(col) == col

RECURSIVE ffill(_)
\* Series.ffill: a missing value takes the last value present above it, and
\* stays missing when there is none
ffill(col) ==
    IF col = <<>> THEN <<>>
    ELSE LET above == ffill(SubSeq(col, 1, Len(col) - 1))
             last == col[Len(col)]
         IN  Append(above,
                    IF last = Null /\ above # <<>> THEN above[Len(above)] ELSE last)

\* Series.str.slice(0, 8) of one cell
StrSlice(v) == IF v.t = "str" THEN Str(slice(v.s, CodeLen)) ELSE Null

\* Series.str.strip() of one cell
StrStrip(v) == IF v.t = "str" THEN Str(strip(v.s)) ELSE Null

\* a slip: only the first of the two filters is applied
FilterJunkByNameOnly(df) ==
    SelectSeq(df, LAMBDA r : r.Center_Long # Str(T_AllCenters))

\* df[df['Center_Long'] != 'All Centers'], then
\* df[df['Payment_Category'] != 'All Primary Payers']
FilterJunk(df) ==
    LET named == SelectSeq(df, LAMBDA r : r.Center_Long # Str(T_AllCenters))
    IN  SelectSeq(named, LAMBDA r : r.Payment_Category # Str(T_AllPayers))

\* pd.read_csv(map_file): the position of a named column, 0 when absent
ColumnNamed(header, name) ==
    IF \E j \in 1..Len(header) : header[j] = name
    THEN CHOOSE j \in 1..Len(header) :
             header[j] = name /\ \A k \in 1..(j - 1) : header[k] # name
    ELSE 0

\* pd.read_csv(map_file), reduced to mapping[['Center_Code', 'Region', 'Urban']]
ReadMapping(file) ==
    LET header == MangleDupes(file.header)
        data == ParseRows(file.rows, Len(header))
        c == ColumnNamed(header, T_Center_Code)
        r == ColumnNamed(header, T_Region)
        u == ColumnNamed(header, T_Urban)
    IN  [hasColumns |-> c > 0 /\ r > 0 /\ u > 0,
         rows |-> IF c > 0 /\ r > 0 /\ u > 0
                  THEN [i \in 1..Len(data) |->
                           [Center_Code |-> data[i][c], Region |-> data[i][r],
                            Urban |-> data[i][u]]]
                  ELSE <<>>]

RECURSIVE Concat(_)
Concat(seqs) == IF seqs = <<>> THEN <<>> ELSE Head(seqs) \o Concat(Tail(seqs))

\* the rows one left row gives in a left join on Center_Code: one per matching
\* right row, in the right rows' order, and one with missing Region and Urban
\* when none matches (missing keys match each other)
JoinRow(row, mapping) ==
    LET hits == SelectSeq(mapping, LAMBDA m : m.Center_Code = row.Center_Code)
        with(region, urban) ==
            [Center_Long |-> row.Center_Long, Citizenship |-> row.Citizenship,
             Payment_Category |-> row.Payment_Category, Blank |-> row.Blank,
             Total |-> row.Total, Deceased |-> row.Deceased, Living |-> row.Living,
             Center_Code |-> row.Center_Code, Region |-> region, Urban |-> urban]
    IN  IF hits = <<>> THEN <<with(Null, Null)>>
        ELSE [k \in 1..Len(hits) |-> with(hits[k].Region, hits[k].Urban)]

\* a slip: an inner join, a row without a match is dropped
MergeInner(df, mapping) ==
    Concat([i \in 1..Len(df) |->
               IF \E k \in 1..Len(mapping) : mapping[k].Center_Code = df[i].Center_Code
               THEN JoinRow(df[i], mapping) ELSE <<>>])

\* df.merge(mapping[[...]], on='Center_Code', how='left')
MergeLeft(df, mapping) == Concat([i \in 1..Len(df) |-> JoinRow(df[i], mapping)])

process_center_data(file, mapfile) ==
    LET raw == ReadCenterCsv(file)
        asRead == [i \in 1..Len(raw) |-> raw[i].Center_Long]
        filled == ffill(asRead)
        coded == [i \in 1..Len(raw) |->
                    [Center_Long |-> filled[i], Citizenship |-> raw[i].Citizenship,
                     Payment_Category |-> raw[i].Payment_Category,
                     Blank |-> raw[i].Blank,
                     Total |-> clean_numeric(raw[i].Total),
                     Deceased |-> clean_numeric(raw[i].Deceased),
                     Living |-> clean_numeric(raw[i].Living),
                     Center_Code |-> StrSlice(filled[i])]]
        df == FilterJunk(coded)
    IN  IF ~IsObjectColumn(asRead) THEN RaisedFrame
        ELSE IF \E i \in 1..Len(coded) :
                   Raised \in {coded[i].Total, coded[i].Deceased, coded[i].Living}
        THEN RaisedFrame
        ELSE IF mapfile.exists
        THEN LET mapping == ReadMapping(mapfile)
                 codes == [k \in 1..Len(mapping.rows) |-> mapping.rows[k].Center_Code]
                 right == [k \in 1..Len(mapping.rows) |->
                              [mapping.rows[k] EXCEPT !.Center_Code = StrStrip(@)]]
                 left == [i \in 1..Len(df) |->
                             [df[i] EXCEPT !.Center_Code = StrStrip(@)]]
             IN  IF ~mapping.hasColumns \/ ~IsObjectColumn(codes) THEN RaisedFrame
                 ELSE [ok |-> TRUE,
                       cols |-> CenterCols \o <<"Center_Code", "Region", "Urban">>,
                       rows |-> MergeLeft(left, right)]
        ELSE [ok |-> TRUE, cols |-> CenterCols \o <<"Center_Code">>, rows |-> df]

----------------------------------------------------------------------------
(* Application of process_race_data to one raw race report.                *)

T_Donor == <<"D", "o", "n", "o", "r">>
T_Race == <<"R", "a", "c", "e">>
T_2020 == <<"2", "0", "2", "0">>
T_2021pad == <<"2", "0", "2", "1", " ">>
T_7 == <<"7">>
T_Notes == <<"N", "o", "t", "e", "s">>
T_Other == <<"O", "t", "h", "e", "r">>
T_Deceased_Donor ==
    <<"D", "e", "c", "e", "a", "s", "e", "d", " ", "D", "o", "n", "o", "r">>
T_Living_Donor ==
    <<"L", "i", "v", "i", "n", "g", " ", "D", "o", "n", "o", "r">>
T_5 == <<"5">>
T_x == <<"x">>

RECURSIVE SeqsUpTo(_, _)
\* the sequences of at most k members of S
SeqsUpTo(S, k) ==
    IF k = 0 THEN {<<>>}
    ELSE LET shorter == SeqsUpTo(S, k - 1)
         IN  shorter \cup {Append(q, e) : q \in shorter, e \in S}

\* labels of the columns after the two leading ones
ExtraLabels == {T_2020, T_2021pad, T_ToDate, T_7, T_Notes}

\* header lines: two leading columns, bound by position whatever their label,
\* then up to MaxCols more; and a header of a single column
RaceHeaders ==
    {lead \o extra : lead \in {<<T_Donor, T_Race>>, <<T_2020, T_Race>>},
                     extra \in SeqsUpTo(ExtraLabels, MaxCols)}
        \cup {<<T_Donor>>}

RaceLabels == {T_AllRaces, T_WhiteNH, T_Other, <<>>}

DonorLabels == <<T_Deceased_Donor, T_Living_Donor>>

\* the count fields of a report, laid over its cells in rotation: grouped
\* numbers with blank and nan fields, plain numbers, a stray text, quoted
\* numbers with whitespace
Fills ==
    {<<T_1200, <<>>, T_7, T_nan>>, <<T_7, T_5>>, <<T_x, T_7>>,
     <<T_q3400, <<" ">>, T_NaN, T_5>>}

FillAt(fill, i, j) == fill[((i + j) % Len(fill)) + 1]

RaceTable(header, races, fill) ==
    [exists |-> TRUE,
     header |-> header,
     rows |-> [i \in 1..Len(races) |->
                 [j \in 1..Len(header) |->
                     IF j = 1 THEN DonorLabels[((i - 1) % 2) + 1]
                     ELSE IF j = 2 THEN races[i]
                     ELSE FillAt(fill, i, j)]]]

RaceInputs ==
    {RaceTable(h, r, f) :
        h \in RaceHeaders, r \in SeqsUpTo(RaceLabels, MaxRows), f \in Fills}

InitRace ==
    /\ pc = "race_input"
    /\ raceIn \in RaceInputs
    /\ raceOut = Idle
    /\ x = Idle /\ cleaned = Idle /\ recleaned = Idle
    /\ listing = Idle /\ race_file = Idle /\ center_file = Idle /\ map_file = Idle
    /\ rerun = Idle
    /\ out_race = Idle /\ out_center = Idle
    /\ centerIn = Idle /\ mapIn = Idle /\ centerOut = Idle /\ centerBare = Idle

ApplyRace ==
    /\ pc = "race_input"
    /\ raceOut' = process_race_data(raceIn)
    /\ pc' = "race_applied"
    /\ UNCHANGED <<runVars, numVars, centerVars, raceIn>>

NextRace == ApplyRace

SpecRace == InitRace /\ [][NextRace]_vars

----------------------------------------------------------------------------
(* C8, C9, C6: the race report as read and the observations made of it     *)

\* a text without its leading and trailing whitespace
TrimOf(txt) ==
    LET solid == {i \in 1..Len(txt) : txt[i] \notin WhiteSpace}
    IN  IF solid = {} THEN <<>>
        ELSE SubSeq(txt, CHOOSE i \in solid : \A j \in solid : i <= j,
                         CHOOSE i \in solid : \A j \in solid : j <= i)

DigitsOnly(txt) ==
    LET body == TrimOf(txt)
    IN  body # <<>> /\ \A i \in 1..Len(body) : IsDigitChar(body[i])

\* the raw table: the frame as read from the file
RawRace == ReadRaceCsv(raceIn)

\* the rows of the raw table that are not "All Races/Ethnicities" rows, in order
DataRowsOf(data) ==
    SelectSeq([i \in 1..Len(data) |-> i], LAMBDA i : data[i][2] # Str(T_AllRaces))

\* the year columns: those after the two leading columns whose label is not
\* "To Date" and is digits only once trimmed, in order
YearColsOf(columns) ==
    SelectSeq([j \in 1..Len(columns) |-> j],
              LAMBDA j : j > 2 /\ columns[j] # T_ToDate /\ DigitsOnly(columns[j]))

RaceApplied == pc = "race_applied" /\ raceOut.ok

\* C8: the output has exactly R x Y observations, R the rows of the raw table
\* that are not "All Races/Ethnicities" rows and Y its year columns: the
\* observation of the a-th such row and the b-th year column carries the row's
\* Donor_Type, the row's Race_Ethnicity (in its canonical spelling) and the
\* (cleaned) cell of that row in that column; no observation is of
\* "All Races/Ethnicities".
C8_RaceReshape ==
    RaceApplied =>
        LET rows == DataRowsOf(RawRace.data)
            years == YearColsOf(RawRace.columns)
            R == Len(rows)
            Y == Len(years)
        IN  /\ Len(raceOut.rows) = R * Y
            /\ \A a \in 1..R : \A b \in 1..Y :
                  LET o == raceOut.rows[(b - 1) * R + a]
                      row == RawRace.data[rows[a]]
                  IN  /\ o.Donor_Type = row[1]
                      /\ o.Race_Ethnicity = SimplifyRace(row[2])
                      /\ o.Count = clean_numeric(row[years[b]])
            /\ \A k \in 1..Len(raceOut.rows) :
                  raceOut.rows[k].Race_Ethnicity # Str(T_AllRaces)

\* an aggregate row and a data row under two year columns have given two
\* observations, with different counts
C8_Witness ==
    /\ RaceApplied
    /\ Len(raceIn.rows) = 2
    /\ Len(DataRowsOf(RawRace.data)) = 1
    /\ Len(YearColsOf(RawRace.columns)) = 2
    /\ Len(raceOut.rows) = 2
    /\ raceOut.rows[1].Count # raceOut.rows[2].Count

\* the Year values of the output
YearsOut == {raceOut.rows[k].Year : k \in 1..Len(raceOut.rows)}

\* the number a digits-only label reads as
YearOf(label) == Num(DigitSum(TrimOf(label), 1))

----------------------------------------------------------------------------
(* Application of process_center_data to one raw center report, with or    *)
(* without a mapping file.                                                 *)

T_PAAE_TX1_Extra ==
    <<"P", "A", "A", "E", "-", "T", "X", "1", "-", "E", "x", "t", "r", "a">>
T_PAAE_TX_Hosp ==
    <<"P", "A", "A", "E", "-", "T", "X", " ", "H", "o", "s", "p">>
T_Ctr_A == <<"C", "t", "r", " ", "A">>
T_Medicaid == <<"M", "e", "d", "i", "c", "a", "i", "d">>
T_Private == <<"P", "r", "i", "v", "a", "t", "e">>
T_US_Citizen == <<"U", ".", "S", ".", " ", "C", "i", "t", "i", "z", "e", "n">>
T_Non_Citizen == <<"N", "o", "n", "-", "C", "i", "t", "i", "z", "e", "n">>
T_PAAE_TX1 == <<"P", "A", "A", "E", "-", "T", "X", "1">>
T_PAAE_TX1pad == <<"P", "A", "A", "E", "-", "T", "X", "1", " ">>
T_PAAE_TX == <<"P", "A", "A", "E", "-", "T", "X">>
T_Northeast == <<"N", "o", "r", "t", "h", "e", "a", "s", "t">>
T_Southwest == <<"S", "o", "u", "t", "h", "w", "e", "s", "t">>
T_Central == <<"C", "e", "n", "t", "r", "a", "l">>

\* (Center_Long, Payment_Category) of a raw row: a center's first row, a row
\* under a merged name cell, the "All Centers" row, a name with a blank in
\* 8th place, a summary row with a name shorter than 8 characters
CenterRowKinds ==
    {<<T_PAAE_TX1_Extra, T_Medicaid>>, <<<<>>, T_Private>>,
     <<T_AllCenters, T_Medicaid>>, <<T_PAAE_TX_Hosp, T_Medicaid>>,
     <<T_Ctr_A, T_AllPayers>>}

\* the Total, Deceased and Living fields of a report, laid over its cells in
\* rotation
CenterFills == {<<T_1200, <<>>, T_7, T_nan>>, <<T_7, T_5>>, <<T_x, T_7>>}

CitizenshipLabels == <<T_US_Citizen, T_Non_Citizen>>

CenterTable(kinds, fill) ==
    [exists |-> TRUE,
     header |-> <<>>,
     rows |-> [i \in 1..Len(kinds) |->
                 [j \in 1..Len(CenterCols) |->
                     IF j = 1 THEN kinds[i][1]
                     ELSE IF j = 2 THEN CitizenshipLabels[((i - 1) % 2) + 1]
                     ELSE IF j = 3 THEN kinds[i][2]
                     ELSE IF j = 4 THEN <<>>
                     ELSE FillAt(fill, i, j)]]]

CenterInputs ==
    {CenterTable(k, f) : k \in SeqsUpTo(CenterRowKinds, MaxRows), f \in CenterFills}

\* Center_Code fields of a mapping file: a code, the code with a trailing
\* blank, a 7-character code, an empty field
MapCodes == {T_PAAE_TX1, T_PAAE_TX1pad, T_PAAE_TX, <<>>}

RegionLabels == <<T_Northeast, T_Southwest, T_Central>>

UrbanLabels == <<T_True, T_False>>

MapTable(header, codes) ==
    [exists |-> TRUE,
     header |-> header,
     rows |-> [i \in 1..Len(codes) |->
                 [j \in 1..Len(header) |->
                     IF header[j] = T_Center_Code THEN codes[i]
                     ELSE IF header[j] = T_Region
                     THEN RegionLabels[((i - 1) % Len(RegionLabels)) + 1]
                     ELSE UrbanLabels[((i - 1) % Len(UrbanLabels)) + 1]]]]

\* no mapping file, a mapping file, or one that lacks the Urban column
MapInputs ==
    {None}
        \cup {MapTable(<<T_Center_Code, T_Region, T_Urban>>, c) :
                 c \in SeqsUpTo(MapCodes, MaxMapRows)}
        \cup {MapTable(<<T_Center_Code, T_Region>>, <<T_PAAE_TX1>>)}

InitCenter ==
    /\ pc = "center_input"
    /\ centerIn \in CenterInputs
    /\ mapIn \in MapInputs
    /\ centerOut = Idle /\ centerBare = Idle
    /\ x = Idle /\ cleaned = Idle /\ recleaned = Idle
    /\ listing = Idle /\ race_file = Idle /\ center_file = Idle /\ map_file = Idle
    /\ rerun = Idle
    /\ out_race = Idle /\ out_center = Idle
    /\ raceIn = Idle /\ raceOut = Idle

ApplyCenter ==
    /\ pc = "center_input"
    /\ centerOut' = process_center_data(centerIn, mapIn)
    /\ pc' = "center_applied"
    /\ UNCHANGED <<runVars, numVars, raceVars, centerIn, mapIn, centerBare>>

\* the same report processed with the mapping file removed
ApplyCenterUnmapped ==
    /\ pc = "center_applied"
    /\ centerBare' = process_center_data(centerIn, None)
    /\ pc' = "center_both"
    /\ UNCHANGED <<runVars, numVars, raceVars, centerIn, mapIn, centerOut>>

NextCenter == ApplyCenter \/ ApplyCenterUnmapped

SpecCenter == InitCenter /\ [][NextCenter]_vars

----------------------------------------------------------------------------
(* find_file and main: one run over the files of BASE_DIR                  *)

T_Kidney == <<"K", "i", "d", "n", "e", "y">>
T_Transplants == <<"T", "r", "a", "n", "s", "p", "l", "a", "n", "t", "s">>
T_center_mapping ==
    <<"c", "e", "n", "t", "e", "r", "_", "m", "a", "p", "p", "i", "n", "g">>
T_csv == <<".", "c", "s", "v">>
N_Kidney_csv == <<"K", "i", "d", "n", "e", "y", ".", "c", "s", "v">>
N_Kidney_copy_csv ==
    <<"K", "i", "d", "n", "e", "y", "_", "c", "o", "p", "y", ".", "c", "s",
      "v">>
N_Kidney_txt == <<"K", "i", "d", "n", "e", "y", ".", "t", "x", "t">>
N_Transplants_csv ==
    <<"T", "r", "a", "n", "s", "p", "l", "a", "n", "t", "s", ".", "c", "s",
      "v">>
N_Transplants_copy_csv ==
    <<"T", "r", "a", "n", "s", "p", "l", "a", "n", "t", "s", "_", "c", "o",
      "p", "y", ".", "c", "s", "v">>
N_center_mapping_csv ==
    <<"c", "e", "n", "t", "e", "r", "_", "m", "a", "p", "p", "i", "n", "g",
      ".", "c", "s", "v">>
N_center_mapping_old_csv ==
    <<"c", "e", "n", "t", "e", "r", "_", "m", "a", "p", "p", "i", "n", "g",
      "_", "o", "l", "d", ".", "c", "s", "v">>

StartsWith(name, prefix) ==
    Len(name) >= Len(prefix) /\ SubSeq(name, 1, Len(prefix)) = prefix

EndsWith(name, suffix) ==
    /\ Len(name) >= Len(suffix)
    /\ SubSeq(name, Len(name) - Len(suffix) + 1, Len(name)) = suffix

\* BASE_DIR.glob(f"{keyword}*.csv"), then the first candidate, or None
find_file(dir, keyword) ==
    LET candidates ==
            SelectSeq(dir, LAMBDA f : /\ StartsWith(f.name, keyword)
                                      /\ EndsWith(f.name, T_csv)
                                      /\ Len(f.name) >= Len(keyword) + Len(T_csv))
    IN  IF candidates = <<>> THEN None ELSE candidates[1]

Named(name, file) ==
    [exists |-> TRUE, name |-> name, header |-> file.header, rows |-> file.rows]

\* the files BASE_DIR may hold: race reports that normalize and that raise,
\* center reports that normalize and that raise, mapping files with and
\* without the Urban column, and a file that is no .csv
FilePool ==
    {Named(N_Kidney_csv,
           RaceTable(<<T_Donor, T_Race, T_ToDate, T_2020>>,
                     <<T_WhiteNH, T_AllRaces>>, <<T_1200, <<>>, T_7, T_nan>>)),
     Named(N_Kidney_copy_csv, RaceTable(<<T_Donor>>, <<T_Other>>, <<T_7, T_5>>)),
     Named(N_Kidney_txt,
           RaceTable(<<T_Donor, T_Race, T_2020>>, <<T_Other>>, <<T_7, T_5>>)),
     Named(N_Transplants_csv,
           CenterTable(<<<<T_PAAE_TX1_Extra, T_Medicaid>>, <<<<>>, T_Private>>>>,
                       <<T_1200, <<>>, T_7, T_nan>>)),
     Named(N_Transplants_copy_csv,
           CenterTable(<<<<T_PAAE_TX_Hosp, T_Medicaid>>>>, <<T_x, T_7>>)),
     Named(N_center_mapping_csv,
           MapTable(<<T_Center_Code, T_Region, T_Urban>>, <<T_PAAE_TX1>>)),
     Named(N_center_mapping_old_csv,
           MapTable(<<T_Center_Code, T_Region>>, <<T_PAAE_TX1>>))}

\* the directory listings: up to MaxFiles files of different names
Listings ==
    {d \in SeqsUpTo(FilePool, MaxFiles) :
        \A i, j \in 1..Len(d) : d[i].name = d[j].name => i = j}

\* a file of processed_data that has not been written
NotWritten == [written |-> FALSE, cols |-> <<>>, rows |-> <<>>]

\* DataFrame.to_csv(path, index=False)
Written(df) == [written |-> TRUE, cols |-> df.cols, rows |-> df.rows]

Init ==
    /\ pc = "start"
    /\ listing \in Listings
    /\ race_file = None /\ center_file = None /\ map_file = None
    /\ out_race = NotWritten /\ out_center = NotWritten
    /\ rerun = FALSE
    /\ x = Idle /\ cleaned = Idle /\ recleaned = Idle
    /\ raceIn = Idle /\ raceOut = Idle
    /\ centerIn = Idle /\ mapIn = Idle /\ centerOut = Idle /\ centerBare = Idle

\* main, step 1: the three calls of find_file
FindFiles ==
    /\ pc = "start"
    /\ race_file' = find_file(listing, T_Kidney)
    /\ center_file' = find_file(listing, T_Transplants)
    /\ map_file' = find_file(listing, T_center_mapping)
    /\ pc' = "race"
    /\ UNCHANGED <<listing, out_race, out_center, rerun, numVars, raceVars,
                   centerVars>>

\* df_race = process_race_data(race_file), for each race report of the pool
df_race ==
    [f \in {g \in FilePool : StartsWith(g.name, T_Kidney)} |->
        process_race_data(f)]

\* df_center = process_center_data(center_file, map_file), for each center
\* report of the pool and each mapping file of the pool or none
df_center ==
    [f \in {g \in FilePool : StartsWith(g.name, T_Transplants)},
     m \in {g \in FilePool : StartsWith(g.name, T_center_mapping)} \cup {None}
        |-> process_center_data(f, m)]

\* a slip: the exception of the race table is not caught and ends the run
RaceStepUncaught ==
    /\ pc = "race"
    /\ \E df \in {IF race_file.exists THEN df_race[race_file] ELSE RaisedFrame} :
          \/ /\ race_file.exists /\ df.ok
             /\ out_race' = Written(df)
             /\ pc' = "center"
          \/ /\ race_file.exists /\ ~df.ok
             /\ pc' = "aborted"
             /\ UNCHANGED out_race
          \/ /\ ~race_file.exists
             /\ pc' = "center"
             /\ UNCHANGED out_race
    /\ UNCHANGED <<listing, race_file, center_file, map_file, out_center,
                   rerun, numVars, raceVars, centerVars>>

\* main, step 2, race table: processed and written, or its exception caught
\* and reported, or the missing file reported
RaceStep ==
    /\ pc = "race"
    /\ \E df \in {IF race_file.exists THEN df_race[race_file] ELSE RaisedFrame} :
          \/ /\ race_file.exists /\ df.ok
             /\ out_race' = Written(df)
             /\ pc' = "center"
          \/ /\ race_file.exists /\ ~df.ok
             /\ pc' = "center"
             /\ UNCHANGED out_race
          \/ /\ ~race_file.exists
             /\ pc' = "center"
             /\ UNCHANGED out_race
    /\ UNCHANGED <<listing, race_file, center_file, map_file, out_center,
                   rerun, numVars, raceVars, centerVars>>

\* main, step 2, center table
CenterStep ==
    /\ pc = "center"
    /\ \E df \in {IF center_file.exists THEN df_center[center_file, map_file]
                  ELSE RaisedFrame} :
          \/ /\ center_file.exists /\ df.ok
             /\ out_center' = Written(df)
          \/ /\ center_file.exists /\ ~df.ok
             /\ UNCHANGED out_center
          \/ /\ ~center_file.exists
             /\ UNCHANGED out_center
    /\ pc' = "finish"
    /\ UNCHANGED <<listing, race_file, center_file, map_file, out_race,
                   rerun, numVars, raceVars, centerVars>>

\* main, the final print: DONE
Finish ==
    /\ pc = "finish"
    /\ pc' = "done"
    /\ UNCHANGED <<runVars, numVars, raceVars, centerVars>>

\* BASE_DIR.glob lists the directory in the order the file system yields,
\* which may differ from one listing to the next
Relisted(dir) ==
    {[i \in 1..Len(dir) |-> dir[p[i]]] : p \in Permutations(1..Len(dir))}

\* main is started again on the same directory contents; processed_data keeps
\* the files of the completed run (the selections of that run stay in place
\* until find_file assigns them anew)
Rerun ==
    /\ pc = "done" /\ rerun = FALSE
    /\ rerun' = TRUE
    /\ pc' = "start"
    /\ listing' \in Relisted(listing)
    /\ UNCHANGED <<race_file, center_file, map_file, out_race, out_center,
                   numVars, raceVars, centerVars>>

\* the steps of one run of main
Steps == FindFiles \/ RaceStep \/ CenterStep \/ Finish

Next == Steps \/ Rerun

Spec == Init /\ [][Next]_vars

\* main runs to its end: single-threaded, every step returns
FairSpec == Spec /\ WF_vars(Steps)

----------------------------------------------------------------------------
(* C1                                                                      *)

\* a file of BASE_DIR matches the keyword
Present(keyword) ==
    \E i \in 1..Len(listing) :
        /\ StartsWith(listing[i].name, keyword)
        /\ EndsWith(listing[i].name, T_csv)

\* at the end of the run each table that was found and normalized is written
Outcome ==
    pc = "done" =>
        /\ (center_file.exists /\ process_center_data(center_file, map_file).ok)
              => out_center = Written(process_center_data(center_file, map_file))
        /\ (race_file.exists /\ process_race_data(race_file).ok)
              => out_race = Written(process_race_data(race_file))
        /\ center_file.exists <=> Present(T_Transplants)
        /\ race_file.exists <=> Present(T_Kidney)

\* C1: whatever the race table does (file not found, normalization raises,
\* normalization succeeds), clean_center_data.csv is written whenever the
\* center file is found and its normalization succeeds, and the other way
\* round for clean_race_data.csv; and the run always reaches its final DONE
\* step.
C1_TablesIndependent == []Outcome /\ <>(pc = "done")

\* the run is done, the race table raised and the center table was written
C1_Witness ==
    /\ pc = "done"
    /\ race_file.exists /\ ~process_race_data(race_file).ok
    /\ ~out_race.written
    /\ out_center.written /\ Len(out_center.rows) = 2

----------------------------------------------------------------------------
(* C2, C3, C4, C5, C10, C6: the center report as read and the rows made of *)
(* it                                                                      *)

\* the raw rows, as read from the file
RawCenter == ReadCenterCsv(centerIn)

\* the mapping table, as read from the file
MapRows == ReadMapping(mapIn).rows

\* the nearest non-blank Center_Long at or above row i of the raw rows,
\* missing if there is none
NameAbove(raw, i) ==
    LET named == {k \in 1..i : raw[k].Center_Long # Null}
    IN  IF named = {} THEN Null
        ELSE raw[CHOOSE k \in named : \A m \in named : m <= k].Center_Long

\* the filled name of every raw row
NamesAbove(raw) == [i \in 1..Len(raw) |-> NameAbove(raw, i)]

\* the raw rows that are not summary rows, in order
NonSummary(raw, names) ==
    SelectSeq([i \in 1..Len(raw) |-> i],
              LAMBDA i : /\ names[i] # Str(T_AllCenters)
                         /\ raw[i].Payment_Category # Str(T_AllPayers))

\* the first 8 characters of a name, all of it when it is shorter
FirstChars(v) ==
    IF v.t = "str"
    THEN Str([i \in 1..(IF Len(v.s) < CodeLen THEN Len(v.s) ELSE CodeLen) |-> v.s[i]])
    ELSE Null

Trimmed(v) == IF v.t = "str" THEN Str(TrimOf(v.s)) ELSE v

\* the mapping rows whose trimmed Center_Code is the trimmed code of a name
MatchesOf(maprows, name) ==
    LET code == Trimmed(FirstChars(name))
    IN  SelectSeq([k \in 1..Len(maprows) |-> k],
                  LAMBDA k : Trimmed(maprows[k].Center_Code) = code)

\* the raw row each output row is made of: a non-summary row gives one output
\* row, or one per matching mapping row when a mapping table is supplied
OriginOf(raw, names, maprows, mapped) ==
    LET kept == NonSummary(raw, names)
    IN  IF ~mapped THEN kept
        ELSE Concat([a \in 1..Len(kept) |->
                        LET hits == Len(MatchesOf(maprows, names[kept[a]]))
                        IN  [c \in 1..(IF hits = 0 THEN 1 ELSE hits) |-> kept[a]]])

\* process_center_data has returned a frame for the report and the mapping file
MappedDone ==
    pc \in {"center_applied", "center_both"} /\ mapIn.exists /\ centerOut.ok

\* process_center_data has returned a frame for the report without mapping file
BareDone ==
    \/ pc \in {"center_applied", "center_both"} /\ ~mapIn.exists /\ centerOut.ok
    \/ pc = "center_both" /\ centerBare.ok

BareOut == IF pc = "center_both" THEN centerBare ELSE centerOut

\* one row per Center_Code, the codes compared as they stand in the file
OneRowPerCode(maprows) ==
    \A k, m \in 1..Len(maprows) :
        maprows[k].Center_Code = maprows[m].Center_Code => k = m

\* one row per Center_Code, the codes compared once trimmed
OneRowPerTrimmedCode(maprows) ==
    \A k, m \in 1..Len(maprows) :
        Trimmed(maprows[k].Center_Code) = Trimmed(maprows[m].Center_Code) => k = m

\* the join of C3: every non-summary row once, with the Region and Urban of the
\* mapping row of its trimmed code, or with both missing when there is none
LeftJoined(out, raw, maprows) ==
    LET names == NamesAbove(raw)
        kept == NonSummary(raw, names)
    IN  /\ Len(out.rows) = Len(kept)
        /\ \A a \in 1..Len(kept) :
              LET o == out.rows[a]
                  i == kept[a]
                  hits == MatchesOf(maprows, names[i])
              IN  /\ o.Center_Long = names[i]
                  /\ o.Citizenship = raw[i].Citizenship
                  /\ o.Payment_Category = raw[i].Payment_Category
                  /\ \A h \in 1..Len(hits) :
                        /\ o.Region = maprows[hits[h]].Region
                        /\ o.Urban = maprows[hits[h]].Urban
                  /\ hits = <<>> => o.Region = Null /\ o.Urban = Null

\* C3 as stated: with a mapping table of one row per Center_Code, every
\* non-summary center row is in the output exactly once, with the Region and
\* Urban of the mapping row whose trimmed code is its trimmed code, and with
\* missing Region and Urban when no mapping row matches.
C3_AsStated ==
    MappedDone =>
        LET maprows == MapRows
        IN  OneRowPerCode(maprows) => LeftJoined(centerOut, RawCenter, maprows)

\* C3, amended: the same, for a mapping table of one row per trimmed
\* Center_Code (two rows whose codes differ only in surrounding whitespace
\* both match, and the center row is then in the output twice).
C3_LeftJoin ==
    MappedDone =>
        LET maprows == MapRows
        IN  OneRowPerTrimmedCode(maprows) => LeftJoined(centerOut, RawCenter, maprows)

\* a row that matches a mapping row and a row that matches none are both in
\* the output, the first with the mapping row's Region, the second with none
C3_Witness ==
    /\ MappedDone /\ OneRowPerTrimmedCode(MapRows)
    /\ Len(centerOut.rows) = 2
    /\ centerOut.rows[1].Region = Str(T_Northeast)
    /\ centerOut.rows[1].Urban = Bool(TRUE)
    /\ centerOut.rows[2].Region = Null
    /\ centerOut.rows[2].Urban = Null
    /\ centerOut.rows[2].Center_Code # Null

\* every output row's Center_Long is the nearest non-blank name at or above
\* the raw row it is made of; with everyRow, it is never blank, and without,
\* it is blank only when no name is at or above that raw row
NamesFilled(out, raw, maprows, mapped, everyRow) ==
    LET names == NamesAbove(raw)
        origin == OriginOf(raw, names, maprows, mapped)
    IN  /\ Len(out.rows) = Len(origin)
        /\ \A k \in 1..Len(origin) :
              /\ out.rows[k].Center_Long = names[origin[k]]
              /\ \/ out.rows[k].Center_Long # Null
                 \/ /\ ~everyRow
                    /\ \A i \in 1..origin[k] : raw[i].Center_Long = Null

\* C4 as stated: in every output row Center_Long is non-blank and is the
\* nearest non-blank Center_Long at or above that row in raw order, for all
\* inputs, a first data row with a blank Center_Long included.
C4_AsStated ==
    /\ MappedDone => NamesFilled(centerOut, RawCenter, MapRows, TRUE, TRUE)
    /\ BareDone => NamesFilled(BareOut, RawCenter, <<>>, FALSE, TRUE)

\* C4, amended: in every output row Center_Long is the nearest non-blank
\* Center_Long at or above that row in raw order, and is non-blank whenever
\* there is one; a row above the first non-blank Center_Long of the report
\* keeps a blank Center_Long.
C4_ForwardFill ==
    /\ MappedDone => NamesFilled(centerOut, RawCenter, MapRows, TRUE, FALSE)
    /\ BareDone => NamesFilled(BareOut, RawCenter, <<>>, FALSE, FALSE)

\* a row with a blank name under a named row has been given that name
C4_Witness ==
    /\ BareDone
    /\ Len(centerIn.rows) = 2
    /\ centerIn.rows[1][1] = T_PAAE_TX1_Extra
    /\ centerIn.rows[2][1] = <<>>
    /\ Len(BareOut.rows) = 2
    /\ BareOut.rows[2].Center_Long = Str(T_PAAE_TX1_Extra)

\* no row of the frame is a summary row or is made of a raw row whose filled
\* name is "All Centers"
NoSummaryRows(out, raw, maprows, mapped) ==
    LET names == NamesAbove(raw)
        origin == OriginOf(raw, names, maprows, mapped)
    IN  /\ \A k \in 1..Len(out.rows) :
              /\ out.rows[k].Center_Long # Str(T_AllCenters)
              /\ out.rows[k].Payment_Category # Str(T_AllPayers)
        /\ Len(out.rows) = Len(origin)
        /\ \A k \in 1..Len(origin) :
              /\ names[origin[k]] # Str(T_AllCenters)
              /\ out.rows[k].Citizenship = raw[origin[k]].Citizenship

\* C5: no output row has Center_Long "All Centers" or Payment_Category
\* "All Primary Payers", with or without a mapping table; Center_Long is the
\* forward-filled name, so a blank-named row under an "All Centers" row is
\* left out as well.
C5_NoSummaryRows ==
    /\ MappedDone => NoSummaryRows(centerOut, RawCenter, MapRows, TRUE)
    /\ BareDone => NoSummaryRows(BareOut, RawCenter, <<>>, FALSE)

\* an "All Centers" row and the blank-named row under it have both been left
\* out, with a mapping table supplied
C5_Witness ==
    /\ MappedDone
    /\ Len(centerIn.rows) = 2
    /\ centerIn.rows[1][1] = T_AllCenters
    /\ centerIn.rows[2][1] = <<>>
    /\ centerIn.rows[2][3] = T_Private
    /\ centerOut.rows = <<>>

\* the columns of a center row other than Region and Urban
SameButEnrichment(o, b) ==
    /\ o.Center_Long = b.Center_Long
    /\ o.Citizenship = b.Citizenship
    /\ o.Payment_Category = b.Payment_Category
    /\ o.Total = b.Total
    /\ o.Deceased = b.Deceased
    /\ o.Living = b.Living
    /\ o.Center_Code = b.Center_Code

\* C2: for every center report (and a mapping table of one row per center),
\* the output without the mapping file and the output with it have the same
\* number of rows and agree, row by row, on Center_Long, Citizenship,
\* Payment_Category, Total, Deceased, Living and Center_Code.
C2_OnlyEnrichmentChanges ==
    (/\ pc = "center_both" /\ mapIn.exists
     /\ centerOut.ok /\ centerBare.ok
     /\ OneRowPerTrimmedCode(MapRows)) =>
        /\ Len(centerOut.rows) = Len(centerBare.rows)
        /\ \A k \in 1..Len(centerOut.rows) :
              SameButEnrichment(centerOut.rows[k], centerBare.rows[k])

\* Center_Code is the first 8 characters of Center_Long in every row
CodesDerived(out) ==
    \A k \in 1..Len(out.rows) :
        out.rows[k].Center_Code = FirstChars(out.rows[k].Center_Long)

\* C10: in every output row, with or without a mapping table, Center_Code is
\* the first 8 characters of that row's forward-filled Center_Long, the whole
\* of Center_Long when it is shorter.
C10_CodeIsPrefix ==
    /\ MappedDone => CodesDerived(centerOut)
    /\ BareDone => CodesDerived(BareOut)

\* a field that is blank or the literal text nan
BlankOrNan(field) == field = <<>> \/ field = T_nan

\* a cleaned count: a non-negative number, 0 when its source field is blank
CleanCount(v, field) ==
    /\ v.t = "num" /\ v.n >= 0
    /\ BlankOrNan(field) => v = Num(0)

\* C6: in every row of the cleaned race output Count is a non-negative number,
\* 0 whenever the source cell was blank or the literal text nan; the same
\* holds for Total, Deceased and Living in every row of the cleaned center
\* output.
C6_CountsCleaned ==
    /\ RaceApplied =>
          LET raw == RawRace
              rows == DataRowsOf(raw.data)
              years == YearColsOf(raw.columns)
              R == Len(rows)
          IN  /\ Len(raceOut.rows) = R * Len(years)
              /\ \A a \in 1..R : \A b \in 1..Len(years) :
                    CleanCount(raceOut.rows[(b - 1) * R + a].Count,
                               raceIn.rows[rows[a]][years[b]])
    /\ BareDone =>
          LET raw == RawCenter
              origin == OriginOf(raw, NamesAbove(raw), <<>>, FALSE)
          IN  /\ Len(BareOut.rows) = Len(origin)
              /\ \A k \in 1..Len(origin) :
                    /\ CleanCount(BareOut.rows[k].Total, centerIn.rows[origin[k]][5])
                    /\ CleanCount(BareOut.rows[k].Deceased, centerIn.rows[origin[k]][6])
                    /\ CleanCount(BareOut.rows[k].Living, centerIn.rows[origin[k]][7])

----------------------------------------------------------------------------
(* C11                                                                     *)

\* C11: a run is idempotent.  For any fixed contents of the input directory,
\* directories with several files matching one keyword included, no step of
\* a run started after a completed run changes the content of
\* clean_race_data.csv or of clean_center_data.csv: the second run leaves
\* both as the first run wrote them.
C11_RerunIdempotent ==
    [][rerun = TRUE => (out_race' = out_race /\ out_center' = out_center)]_vars

----------------------------------------------------------------------------
(* C12                                                                     *)

\* the columns the output contract gives clean_center_data.csv
ContractColumns ==
    {"Center_Long", "Citizenship", "Payment_Category", "Total", "Deceased",
     "Living", "Center_Code", "Region", "Urban"}

\* the columns of a written file
ColumnsOf(file) == {file.cols[i] : i \in 1..Len(file.cols)}

\* C12: whenever clean_center_data.csv is written (looked at when the center
\* step of the run has ended), with or without a mapping
\* file, its columns are exactly Center_Long, Citizenship, Payment_Category,
\* Total, Deceased, Living, Center_Code, Region and Urban, and without a
\* mapping file Region and Urban are null in every row.
C12_CenterColumns ==
    (pc = "finish" /\ out_center.written) =>
        /\ ColumnsOf(out_center) = ContractColumns
        /\ (ColumnsOf(out_center) = ContractColumns /\ ~map_file.exists) =>
              \A k \in 1..Len(out_center.rows) :
                  /\ out_center.rows[k].Region = Null
                  /\ out_center.rows[k].Urban = Null

====
